---- MODULE Spec2Model ----
(***************************************************************************)
(* Model of subscribe_to_events (src/axevent/custome_subscribe.py).         *)
(*                                                                         *)
(* A stream line is a sequence of lexemes.  A lexeme is either a JSON       *)
(* string literal (q = TRUE, s = the atoms between the quotes) or a piece   *)
(* of bare text (q = FALSE, s = one atom).  An atom stands for a run of     *)
(* characters; "x in topic" on a string is containment of the atom.         *)
(* Printed text is a sequence of atoms.  Emoji of the source's messages     *)
(* are left out of the literals.                                            *)
(***************************************************************************)
EXTENDS Integers, Sequences, FiniteSets, TLC

MaxLines == 2

(* ---------------------------- lexemes ---------------------------------- *)

B(a) == [q |-> FALSE, s |-> <<a>>]
Q(atoms) == [q |-> TRUE, s |-> atoms]

SP == B(" ")
DATA == B("data:")
LBRACE == B("{")
RBRACE == B("}")
LBRACK == B("[")
RBRACK == B("]")
COLON == B(":")
COMMA == B(",")

Numerals == {"5", "87", "0.93"}
Keywords == {"null", "true", "false"}

(* the characters of a line: a string literal shows its quotes *)
RECURSIVE Text(_)
Text(lexemes) ==
    IF lexemes = <<>> THEN <<>>
    ELSE LET h == Head(lexemes)
         IN (IF h.q THEN <<"\"">> \o h.s \o <<"\"">> ELSE h.s) \o Text(Tail(lexemes))

(* ---------------------------- JSON values ------------------------------ *)

Str(atoms) == [t |-> "str", s |-> atoms, items |-> <<>>]
Num(a) == [t |-> "num", s |-> <<a>>, items |-> <<>>]
Kw(a) == [t |-> a, s |-> <<a>>, items |-> <<>>]
List(vs) == [t |-> "list", s |-> <<>>, items |-> vs]
Obj(pairs) == [t |-> "obj", s |-> <<>>, items |-> pairs]

RECURSIVE SkipWs(_)
SkipWs(toks) ==
    IF toks # <<>> /\ Head(toks) = SP THEN SkipWs(Tail(toks)) ELSE toks

RECURSIVE RStrip(_)
RStrip(toks) ==
    IF toks # <<>> /\ toks[Len(toks)] = SP
    THEN RStrip(SubSeq(toks, 1, Len(toks) - 1))
    ELSE toks

(* str.strip() *)
strip(toks) == RStrip(SkipWs(toks))

(* a dict keeps one entry per key: a repeated key replaces the value *)
RECURSIVE Put(_, _, _)
Put(pairs, k, v) ==
    IF pairs = <<>> THEN <<[k |-> k, v |-> v]>>
    ELSE IF Head(pairs).k = k THEN <<[k |-> k, v |-> v]>> \o Tail(pairs)
    ELSE <<Head(pairs)>> \o Put(Tail(pairs), k, v)

Fail == [ok |-> FALSE, val |-> Kw("null"), rest |-> <<>>]
Ok(v, rest) == [ok |-> TRUE, val |-> v, rest |-> rest]

RECURSIVE ParseValue(_)
RECURSIVE ParseMembers(_, _)
RECURSIVE ParseElements(_, _)

(* members of an object, after "{" or after "," *)
ParseMembers(toks0, acc) ==
    LET toks == SkipWs(toks0)
    IN IF toks = <<>> \/ ~Head(toks).q THEN Fail
       ELSE LET key == Head(toks).s
                t1 == SkipWs(Tail(toks))
            IN IF t1 = <<>> \/ Head(t1) # COLON THEN Fail
               ELSE LET r == ParseValue(Tail(t1))
                    IN IF ~r.ok THEN Fail
                       ELSE LET t2 == SkipWs(r.rest)
                                acc2 == Put(acc, key, r.val)
                            IN IF t2 = <<>> THEN Fail
                               ELSE IF Head(t2) = RBRACE THEN Ok(Obj(acc2), Tail(t2))
                               ELSE IF Head(t2) = COMMA THEN ParseMembers(Tail(t2), acc2)
                               ELSE Fail

(* elements of an array, after "[" or after "," *)
ParseElements(toks0, acc) ==
    LET r == ParseValue(toks0)
    IN IF ~r.ok THEN Fail
       ELSE LET t2 == SkipWs(r.rest)
                acc2 == Append(acc, r.val)
            IN IF t2 = <<>> THEN Fail
               ELSE IF Head(t2) = RBRACK THEN Ok(List(acc2), Tail(t2))
               ELSE IF Head(t2) = COMMA THEN ParseElements(Tail(t2), acc2)
               ELSE Fail

ParseValue(toks0) ==
    LET toks == SkipWs(toks0)
    IN IF toks = <<>> THEN Fail
       ELSE LET h == Head(toks)
                r == Tail(toks)
            IN IF h.q THEN Ok(Str(h.s), r)
               ELSE IF h = LBRACE
                    THEN (IF SkipWs(r) # <<>> /\ Head(SkipWs(r)) = RBRACE
                          THEN Ok(Obj(<<>>), Tail(SkipWs(r)))
                          ELSE ParseMembers(r, <<>>))
               ELSE IF h = LBRACK
                    THEN (IF SkipWs(r) # <<>> /\ Head(SkipWs(r)) = RBRACK
                          THEN Ok(List(<<>>), Tail(SkipWs(r)))
                          ELSE ParseElements(r, <<>>))
               ELSE IF h.s[1] \in Numerals THEN Ok(Num(h.s[1]), r)
               ELSE IF h.s[1] \in Keywords THEN Ok(Kw(h.s[1]), r)
               ELSE Fail

(* json.loads: ok = FALSE stands for JSONDecodeError *)
json_loads(toks) ==
    LET r == ParseValue(toks)
    IN IF r.ok /\ SkipWs(r.rest) = <<>> THEN r ELSE Fail

(* ---------------------------- Python helpers --------------------------- *)

(* only a dict has .get; on anything else the call raises AttributeError *)
HasGet(v) == v.t = "obj"

RECURSIVE Lookup(_, _, _)
Lookup(pairs, k, default) ==
    IF pairs = <<>> THEN default
    ELSE IF Head(pairs).k = k THEN Head(pairs).v
    ELSE Lookup(Tail(pairs), k, default)

(* dict.get(k): the default is dropped and an absent key gives None *)
Get_NoDefault(d, k, default) == Lookup(d.items, k, Kw("null"))

(* dict.get(k, default) *)
Get(d, k, default) == Lookup(d.items, k, default)

(* "a in x" raises TypeError unless x is a str, a list or a dict *)
SupportsIn(x) == x.t \in {"str", "list", "obj"}

(* a in x *)
In(a, x) ==
    CASE x.t = "str" -> \E j \in 1..Len(x.s) : x.s[j] = a
      [] x.t = "list" -> \E j \in 1..Len(x.items) :
                             x.items[j].t = "str" /\ x.items[j].s = <<a>>
      [] x.t = "obj" -> \E j \in 1..Len(x.items) : x.items[j].k = <<a>>
      [] OTHER -> FALSE

RECURSIVE pyrepr(_)
RECURSIVE ReprItems(_)
RECURSIVE ReprPairs(_)

ReprItems(vs) ==
    IF vs = <<>> THEN <<>>
    ELSE pyrepr(Head(vs)) \o (IF Len(vs) > 1 THEN <<", ">> ELSE <<>>) \o ReprItems(Tail(vs))

ReprPairs(ps) ==
    IF ps = <<>> THEN <<>>
    ELSE <<"'">> \o Head(ps).k \o <<"'", ": ">> \o pyrepr(Head(ps).v)
         \o (IF Len(ps) > 1 THEN <<", ">> ELSE <<>>) \o ReprPairs(Tail(ps))

(* repr(v) *)
pyrepr(v) ==
    CASE v.t = "str" -> <<"'">> \o v.s \o <<"'">>
      [] v.t = "num" -> v.s
      [] v.t = "null" -> <<"None">>
      [] v.t = "true" -> <<"True">>
      [] v.t = "false" -> <<"False">>
      [] v.t = "list" -> <<"[">> \o ReprItems(v.items) \o <<"]">>
      [] v.t = "obj" -> <<"{">> \o ReprPairs(v.items) \o <<"}">>

(* str(v), what an f-string substitutes *)
pystr(v) == IF v.t = "str" THEN v.s ELSE pyrepr(v)

(* ---------------------------- stream lines ----------------------------- *)

KV(k, valtoks) == <<Q(<<k>>), COLON>> \o valtoks
Braced(members) == <<LBRACE>> \o members \o <<RBRACE>>

DetTopic == Q(<<"tns1:", "VideoAnalytics", "/", "ObjectDetected">>)
MotionTopic == Q(<<"tns1:", "VideoAnalytics", "/", "Motion">>)

(* the example document of the wire format *)
FullDoc ==
    Braced(KV("topic", <<DetTopic>>) \o <<COMMA>>
           \o KV("data", Braced(KV("ObjectClass", <<Q(<<"person">>)>>) \o <<COMMA>>
                                \o KV("Confidence", <<Q(<<"87">>)>>))) \o <<COMMA>>
           \o KV("@timestamp", <<Q(<<"12:00:00">>)>>))

AllFieldsDoc ==
    Braced(KV("topic", <<DetTopic>>) \o <<COMMA, SP>>
           \o KV("data", Braced(KV("ObjectClass", <<Q(<<"car">>)>>) \o <<COMMA>>
                                \o KV("Confidence", <<B("0.93")>>) \o <<COMMA>>
                                \o KV("BoundingBox", <<LBRACK, B("5"), COMMA, B("87"), RBRACK>>))))

EmptyLine == <<>>
CommentLine == <<B(": keep-alive")>>
BlankLine == <<SP>>
IndentedData == <<SP, DATA, SP>> \o FullDoc
BareJson == FullDoc
DataOnly == <<DATA>>
DataBlank == <<DATA, SP, SP>>
OpenBrace == <<DATA, SP, LBRACE>>
BareWord == <<DATA, B("oops")>>
ExtraData == <<DATA>> \o FullDoc \o <<RBRACE>>
Full == <<DATA, SP>> \o FullDoc
AllFields == <<DATA, SP>> \o AllFieldsDoc \o <<SP>>
NoData == <<DATA>> \o Braced(KV("topic", <<DetTopic>>))
EmptyData == <<DATA>> \o Braced(KV("data", <<LBRACE, RBRACE>>) \o <<COMMA>> \o KV("topic", <<DetTopic>>))
Motion == <<DATA, SP>> \o Braced(KV("topic", <<MotionTopic>>) \o <<COMMA>>
                                 \o KV("data", Braced(KV("ObjectClass", <<Q(<<"person">>)>>))))
NoTopic == <<DATA, SP, LBRACE, RBRACE>>
OnlyObjectDetected == <<DATA>> \o Braced(KV("topic", <<Q(<<"ObjectDetected">>)>>))
TopNumber == <<DATA, SP, B("5")>>
TopString == <<DATA, SP, DetTopic>>
TopicNumber == <<DATA>> \o Braced(KV("topic", <<B("5")>>))
TopicNull == <<DATA>> \o Braced(KV("topic", <<B("null")>>))
TopicList == <<DATA>> \o Braced(KV("topic", <<LBRACK, Q(<<"VideoAnalytics">>), COMMA,
                                              Q(<<"ObjectDetected">>), RBRACK>>))
TopicDict == <<DATA>> \o Braced(KV("topic", Braced(KV("VideoAnalytics", <<B("true")>>))))
DataNull == <<DATA>> \o Braced(KV("topic", <<DetTopic>>) \o <<COMMA>> \o KV("data", <<B("null")>>))
DataList == <<DATA>> \o Braced(KV("topic", <<DetTopic>>) \o <<COMMA>>
                               \o KV("data", <<LBRACK, Q(<<"person">>), RBRACK>>))
MotionDataNumber == <<DATA>> \o Braced(KV("topic", <<MotionTopic>>) \o <<COMMA>> \o KV("data", <<B("5")>>))

(* the lines the camera may send *)
StreamLines ==
    { EmptyLine, CommentLine, BlankLine, IndentedData, BareJson,
      DataOnly, DataBlank, OpenBrace, BareWord, ExtraData,
      Full, AllFields, NoData, EmptyData, Motion, NoTopic, OnlyObjectDetected,
      TopNumber, TopString, TopicNumber, TopicNull, TopicList, TopicDict,
      DataNull, DataList, MotionDataNumber }

(* ---------------------------- per-line locals --------------------------- *)

(* prefix in line, in place of line.startswith(prefix) *)
startswith_Anywhere(l, prefix) == \E j \in 1..Len(l) : l[j] = prefix

(* line.startswith(prefix) for a one-lexeme prefix *)
startswith(l, prefix) == l # <<>> /\ Head(l) = prefix

(* json_str = line[5:].strip() *)
json_str(l) == strip(Tail(l))

(* event_data = json.loads(json_str) *)
event_data(l) == json_loads(json_str(l)).val

topic(l) == Get(event_data(l), <<"topic">>, Str(<<"Unknown">>))
data(l) == Get(event_data(l), <<"data">>, Obj(<<>>))
timestamp(l) == Get(event_data(l), <<"@timestamp">>, Str(<<"Unknown">>))

(* "or" in place of "and" *)
IsDetection_Either(tp) == In("VideoAnalytics", tp) \/ In("ObjectDetected", tp)

(* 'VideoAnalytics' in topic and 'ObjectDetected' in topic *)
IsDetection(tp) == In("VideoAnalytics", tp) /\ In("ObjectDetected", tp)

NA == Str(<<"N/A">>)

(* ---------------------------- state ------------------------------------ *)

VARIABLES
    pc,        \* position in subscribe_to_events: "L<n>" = about to run line n
    line,      \* the loop variable
    lines,     \* the lines iter_lines has yielded so far
    out,       \* standard output: [k: kind of message, i: line it belongs to, txt]
    conn,      \* the streamed response's connection: "none", "open", "closed"
    exc,       \* the exception being handled or propagated, "" if none
    nreq,      \* HTTP requests issued
    parsed,    \* indices of the lines json.loads was called on
    failed,    \* a transport failure has been raised
    sigint     \* interrupts delivered, and what had been read and printed at the first

vars == <<pc, line, lines, out, conn, exc, nreq, parsed, failed, sigint>>

camera_ip == "169.254.118.229"

(* statements inside the outer try block, lines 23-55 *)
TryBody ==
    { "L24", "L27", "L29", "L30", "L31", "L34", "L36", "L37", "L38",
      "L41", "L42", "L43", "L45", "L46", "L47", "L48", "L49", "L50", "L51", "L52", "L55" }

(* statements of the function outside the try block's protection *)
Unprotected == { "L19", "L20", "L21", "L58", "L60", "ret" }

Running == TryBody \cup Unprotected

idx == Len(lines)

(* statements of the loop body, lines 30-55 *)
LineBody == TryBody \ {"L24", "L27", "L29"}

(* exceptions raised by the processing of a line (as opposed to the transport) *)
LineErrors == {"AttributeError", "TypeError", "JSONDecodeError"}

Msg(k, i, txt) == [k |-> k, i |-> i, txt |-> txt]

(* c * 60, as a run of one character *)
Rule(c) == <<c, "* 60">>

Init ==
    /\ pc = "L19"
    /\ line = <<>>
    /\ lines = <<>>
    /\ out = <<>>
    /\ conn = "none"
    /\ exc = ""
    /\ nreq = 0
    /\ parsed = <<>>
    /\ failed = FALSE
    /\ sigint = [n |-> 0, reads |-> 0, outs |-> 0]

(* an exception raised by a statement of the try block: KeyboardInterrupt goes
   to line 58, any Exception to line 60 *)
Raise(e) ==
    /\ exc' = e
    /\ pc' = IF e = "KeyboardInterrupt" THEN "L58" ELSE "L60"

(* ---------------------------- lines 19-21 ------------------------------ *)

Banner19 ==
    /\ pc = "L19"
    /\ out' = Append(out, Msg("banner", 0, <<"Subscribing to VideoAnalytics events on ", camera_ip>>))
    /\ pc' = "L20"
    /\ UNCHANGED <<line, lines, conn, exc, nreq, parsed, failed, sigint>>

Banner20 ==
    /\ pc = "L20"
    /\ out' = Append(out, Msg("banner", 0, <<"Listening for events... (Press Ctrl+C to stop)">>))
    /\ pc' = "L21"
    /\ UNCHANGED <<line, lines, conn, exc, nreq, parsed, failed, sigint>>

Banner21 ==
    /\ pc = "L21"
    /\ out' = Append(out, Msg("banner", 0, Rule("=")))
    /\ pc' = "L24"
    /\ UNCHANGED <<line, lines, conn, exc, nreq, parsed, failed, sigint>>

(* ---------------------------- lines 24-27 ------------------------------ *)

(* requests.get returns a streamed response *)
RequestOk ==
    /\ pc = "L24"
    /\ nreq' = nreq + 1
    /\ conn' = "open"
    /\ pc' = "L27"
    /\ UNCHANGED <<line, lines, out, exc, parsed, failed, sigint>>

(* requests.get raises: no connection, or no response within the timeout *)
RequestFails ==
    /\ pc = "L24"
    /\ nreq' = nreq + 1
    /\ \E e \in {"ConnectionError", "Timeout"} : Raise(e)
    /\ failed' = TRUE
    /\ UNCHANGED <<line, lines, out, conn, parsed, sigint>>

StatusOk ==
    /\ pc = "L27"
    /\ pc' = "L29"
    /\ UNCHANGED <<line, lines, out, conn, exc, nreq, parsed, failed, sigint>>

(* raise_for_status on a 4xx/5xx response *)
StatusError ==
    /\ pc = "L27"
    /\ Raise("HTTPError")
    /\ failed' = TRUE
    /\ UNCHANGED <<line, lines, out, conn, nreq, parsed, sigint>>

(* ---------------------------- line 29 ---------------------------------- *)

NextLine ==
    /\ pc = "L29"
    /\ Len(lines) < MaxLines
    /\ \E l \in StreamLines :
          /\ line' = l
          /\ lines' = Append(lines, l)
    /\ pc' = "L30"
    /\ UNCHANGED <<out, conn, exc, nreq, parsed, failed, sigint>>

(* the server closes the stream: the exhausted body releases the connection *)
EndOfStream ==
    /\ pc = "L29"
    /\ conn' = "closed"
    /\ pc' = "ret"
    /\ UNCHANGED <<line, lines, out, exc, nreq, parsed, failed, sigint>>

(* the connection breaks while the body is read *)
StreamError ==
    /\ pc = "L29"
    /\ Raise("ChunkedEncodingError")
    /\ conn' = "closed"
    /\ failed' = TRUE
    /\ UNCHANGED <<line, lines, out, nreq, parsed, sigint>>

(* ---------------------------- lines 30-38 ------------------------------ *)

(* the emptiness test of line 30 is missing *)
TestLine_NoSkip ==
    /\ pc = "L30"
    /\ pc' = "L31"
    /\ UNCHANGED <<line, lines, out, conn, exc, nreq, parsed, failed, sigint>>

TestLine ==
    /\ pc = "L30"
    /\ pc' = IF line # <<>> THEN "L31" ELSE "L29"
    /\ UNCHANGED <<line, lines, out, conn, exc, nreq, parsed, failed, sigint>>

EchoPrefix == "(incoming) "

Echo ==
    /\ pc = "L31"
    /\ out' = Append(out, Msg("echo", idx, <<EchoPrefix>> \o Text(line)))
    /\ pc' = "L34"
    /\ UNCHANGED <<line, lines, conn, exc, nreq, parsed, failed, sigint>>

TestPrefix ==
    /\ pc = "L34"
    /\ pc' = IF startswith(line, DATA) THEN "L36" ELSE "L29"
    /\ UNCHANGED <<line, lines, out, conn, exc, nreq, parsed, failed, sigint>>

StripPayload ==
    /\ pc = "L36"
    /\ pc' = "L37"
    /\ UNCHANGED <<line, lines, out, conn, exc, nreq, parsed, failed, sigint>>

TestPayload ==
    /\ pc = "L37"
    /\ pc' = IF json_str(line) # <<>> THEN "L38" ELSE "L29"
    /\ UNCHANGED <<line, lines, out, conn, exc, nreq, parsed, failed, sigint>>

(* json.loads; JSONDecodeError is caught by the inner handler, line 54 *)
Loads ==
    /\ pc = "L38"
    /\ parsed' = Append(parsed, idx)
    /\ pc' = IF json_loads(json_str(line)).ok THEN "L41" ELSE "L55"
    /\ UNCHANGED <<line, lines, out, conn, exc, nreq, failed, sigint>>

(* the decode error is not caught per line and reaches the generic handler *)
DecodeErrorPass_Propagates ==
    /\ pc = "L55"
    /\ Raise("JSONDecodeError")
    /\ UNCHANGED <<line, lines, out, conn, nreq, parsed, failed, sigint>>

(* except json.JSONDecodeError: pass *)
DecodeErrorPass ==
    /\ pc = "L55"
    /\ pc' = "L29"
    /\ UNCHANGED <<line, lines, out, conn, exc, nreq, parsed, failed, sigint>>

(* ---------------------------- lines 41-52 ------------------------------ *)

GetTopic ==
    /\ pc = "L41"
    /\ IF HasGet(event_data(line))
       THEN pc' = "L42" /\ exc' = exc
       ELSE Raise("AttributeError")
    /\ UNCHANGED <<line, lines, out, conn, nreq, parsed, failed, sigint>>

GetData ==
    /\ pc = "L42"
    /\ IF HasGet(event_data(line))
       THEN pc' = "L43" /\ exc' = exc
       ELSE Raise("AttributeError")
    /\ UNCHANGED <<line, lines, out, conn, nreq, parsed, failed, sigint>>

GetTimestamp ==
    /\ pc = "L43"
    /\ IF HasGet(event_data(line))
       THEN pc' = "L45" /\ exc' = exc
       ELSE Raise("AttributeError")
    /\ UNCHANGED <<line, lines, out, conn, nreq, parsed, failed, sigint>>

(* a topic that does not support "in" counts as no detection *)
TestTopic_Lenient ==
    /\ pc = "L45"
    /\ pc' = IF SupportsIn(topic(line)) /\ IsDetection(topic(line)) THEN "L46" ELSE "L29"
    /\ UNCHANGED <<line, lines, out, conn, exc, nreq, parsed, failed, sigint>>

TestTopic ==
    /\ pc = "L45"
    /\ IF ~SupportsIn(topic(line))
       THEN Raise("TypeError")
       ELSE /\ pc' = IF IsDetection(topic(line)) THEN "L46" ELSE "L29"
            /\ exc' = exc
    /\ UNCHANGED <<line, lines, out, conn, nreq, parsed, failed, sigint>>

PrintHeader ==
    /\ pc = "L46"
    /\ out' = Append(out, Msg("header", idx, <<"OBJECT DETECTION EVENT!">>))
    /\ pc' = "L47"
    /\ UNCHANGED <<line, lines, conn, exc, nreq, parsed, failed, sigint>>

PrintTime ==
    /\ pc = "L47"
    /\ out' = Append(out, Msg("time", idx, <<"   Time: ">> \o pystr(timestamp(line))))
    /\ pc' = "L48"
    /\ UNCHANGED <<line, lines, conn, exc, nreq, parsed, failed, sigint>>

PrintTopic ==
    /\ pc = "L48"
    /\ out' = Append(out, Msg("topic", idx, <<"   Topic: ">> \o pystr(topic(line))))
    /\ pc' = "L49"
    /\ UNCHANGED <<line, lines, conn, exc, nreq, parsed, failed, sigint>>

(* line 49: data.get raises AttributeError when data is not a dict *)
PrintClass ==
    /\ pc = "L49"
    /\ IF HasGet(data(line))
       THEN /\ out' = Append(out, Msg("class", idx, <<"   Class: ">> \o pystr(Get(data(line), <<"ObjectClass">>, NA))))
            /\ pc' = "L50"
            /\ exc' = exc
       ELSE /\ Raise("AttributeError")
            /\ out' = out
    /\ UNCHANGED <<line, lines, conn, nreq, parsed, failed, sigint>>

(* line 50: data.get raises AttributeError when data is not a dict *)
PrintConfidence ==
    /\ pc = "L50"
    /\ IF HasGet(data(line))
       THEN /\ out' = Append(out, Msg("confidence", idx, <<"   Confidence: ">> \o pystr(Get(data(line), <<"Confidence">>, NA))))
            /\ pc' = "L51"
            /\ exc' = exc
       ELSE /\ Raise("AttributeError")
            /\ out' = out
    /\ UNCHANGED <<line, lines, conn, nreq, parsed, failed, sigint>>

(* line 51: data.get raises AttributeError when data is not a dict *)
PrintBBox ==
    /\ pc = "L51"
    /\ IF HasGet(data(line))
       THEN /\ out' = Append(out, Msg("bbox", idx, <<"   BBox: ">> \o pystr(Get(data(line), <<"BoundingBox">>, NA))))
            /\ pc' = "L52"
            /\ exc' = exc
       ELSE /\ Raise("AttributeError")
            /\ out' = out
    /\ UNCHANGED <<line, lines, conn, nreq, parsed, failed, sigint>>

PrintSeparator ==
    /\ pc = "L52"
    /\ out' = Append(out, Msg("separator", idx, Rule("-")))
    /\ pc' = "L29"
    /\ UNCHANGED <<line, lines, conn, exc, nreq, parsed, failed, sigint>>

(* ---------------------------- lines 57-60 ------------------------------ *)

(* except KeyboardInterrupt *)
StopHandler ==
    /\ pc = "L58"
    /\ out' = Append(out, Msg("stop", 0, <<"\n", "Stopped by user">>))
    /\ exc' = ""
    /\ pc' = "ret"
    /\ UNCHANGED <<line, lines, conn, nreq, parsed, failed, sigint>>

(* the handler reconnects once after printing the error *)
ErrorHandler_Retry ==
    /\ pc = "L60"
    /\ out' = Append(out, Msg("error", IF exc \in LineErrors THEN idx ELSE 0, <<"Error: ", exc>>))
    /\ exc' = ""
    /\ pc' = IF nreq < 2 THEN "L24" ELSE "ret"
    /\ UNCHANGED <<line, lines, conn, nreq, parsed, failed, sigint>>

(* except Exception as e *)
ErrorHandler ==
    /\ pc = "L60"
    /\ out' = Append(out, Msg("error", IF exc \in LineErrors THEN idx ELSE 0, <<"Error: ", exc>>))
    /\ exc' = ""
    /\ pc' = "ret"
    /\ UNCHANGED <<line, lines, conn, nreq, parsed, failed, sigint>>

(* the function falls off its end *)
Return ==
    /\ pc = "ret"
    /\ pc' = "done"
    /\ UNCHANGED <<line, lines, out, conn, exc, nreq, parsed, failed, sigint>>

(* Ctrl+C: KeyboardInterrupt is raised at the statement about to run.  Inside
   the try block the handler of line 57 takes it; anywhere else in the
   function nothing catches it and it reaches the caller. *)
Interrupt ==
    /\ pc \in Running
    /\ sigint' = IF sigint.n = 0
                 THEN [n |-> 1, reads |-> Len(lines), outs |-> Len(out)]
                 ELSE [sigint EXCEPT !.n = @ + 1]
    /\ exc' = "KeyboardInterrupt"
    /\ pc' = IF pc \in TryBody THEN "L58" ELSE "raised"
    /\ UNCHANGED <<line, lines, out, conn, nreq, parsed, failed>>

Next ==
    \/ Banner19 \/ Banner20 \/ Banner21
    \/ RequestOk \/ RequestFails \/ StatusOk \/ StatusError
    \/ NextLine \/ EndOfStream \/ StreamError
    \/ TestLine \/ Echo \/ TestPrefix \/ StripPayload \/ TestPayload
    \/ Loads \/ DecodeErrorPass
    \/ GetTopic \/ GetData \/ GetTimestamp \/ TestTopic
    \/ PrintHeader \/ PrintTime \/ PrintTopic
    \/ PrintClass \/ PrintConfidence \/ PrintBBox \/ PrintSeparator
    \/ StopHandler \/ ErrorHandler \/ Return
    \/ Interrupt

Spec == Init /\ [][Next]_vars

(* ---------------------------- observation ------------------------------ *)

(* what was printed for line i, in order *)
OutOf(i) == SelectSeq(out, LAMBDA m : m.i = i)

Kinds(ms) == [j \in 1..Len(ms) |-> ms[j].k]

Count(k) == Cardinality({j \in 1..Len(out) : out[j].k = k})

(* line i has been processed to its end and the loop has come back to line 29 *)
Completed(i) == i < idx \/ (i = idx /\ pc = "L29")

EchoOf(i) == Msg("echo", i, <<EchoPrefix>> \o Text(lines[i]))

(* the line, read off its lexemes *)
IsDataLine(l) == l # <<>> /\ l[1] = DATA
Payload(l) == strip(SubSeq(l, 2, Len(l)))
(* json.loads of the payload of each line the camera may send *)
Decoded == [l \in StreamLines |-> json_loads(Payload(l))]
Decodes(l) == Decoded[l].ok
Doc(l) == Decoded[l].val

(* members of a JSON object, read off the parsed document *)
Present(d, k) == d.t = "obj" /\ \E j \in 1..Len(d.items) : d.items[j].k = <<k>>
Field(d, k) == d.items[CHOOSE j \in 1..Len(d.items) : d.items[j].k = <<k>>].v
TopicOf(l) == IF Present(Doc(l), "topic") THEN Field(Doc(l), "topic") ELSE Str(<<"Unknown">>)
IsContainer(x) == x.t \in {"str", "list", "obj"}
Holds(x, a) == IsContainer(x) /\ In(a, x)
HoldsBoth(x) == Holds(x, "VideoAnalytics") /\ Holds(x, "ObjectDetected")

ParsedCount(i) == Cardinality({j \in 1..Len(parsed) : parsed[j] = i})

IsPrefix(a, b) == Len(a) <= Len(b) /\ a = SubSeq(b, 1, Len(a))

(* ---------------------------- C1, C2, C3 ------------------------------- *)

(* C1: no exception propagates from subscribe_to_events to its caller,
   whatever the stream, the transport failures and the interrupts. *)
C1_ReturnsNormally == pc # "raised"

(* C2: once the request has returned a response, the function never returns
   with the connection still open. *)
C2_ConnectionClosed == (pc = "done" /\ conn # "none") => conn = "closed"

(* C3: once an interrupt has arrived, no error message is or gets printed, no
   further line is read, nothing but the stop message is printed afterwards,
   the stop message is printed at most once, and the function ends by
   returning with the stop message printed exactly once. *)
C3_InterruptStops ==
    sigint.n >= 1 =>
        /\ Count("error") = 0
        /\ Count("stop") <= 1
        /\ Len(lines) = sigint.reads
        /\ \A j \in (sigint.outs + 1)..Len(out) : out[j].k = "stop"
        /\ pc \in {"L58", "ret", "done"}
        /\ pc = "done" => Count("stop") = 1

(* ---------------------------- C4 --------------------------------------- *)

MalformedData(l) == IsDataLine(l) /\ ~Decodes(l)

(* C4: for a 'data:' line whose stripped remainder is not valid JSON, nothing
   but the echo is ever printed for the line (no detection block, no error
   message), its processing raises nothing that ends the loop, and once the
   line is done the loop is back at its head with exactly the echo printed. *)
C4_MalformedSkipped ==
    \A i \in 1..idx : MalformedData(lines[i]) =>
        /\ OutOf(i) \in {<<>>, <<EchoOf(i)>>}
        /\ ParsedCount(i) <= 1
        /\ i = idx => /\ exc \notin LineErrors
                      /\ pc \in LineBody => pc \in {"L30", "L31", "L34", "L36", "L37", "L38", "L55"}
                      /\ (pc \notin LineBody /\ sigint.n = 0 /\ ~failed /\ conn = "open") => pc = "L29"
        /\ Completed(i) => OutOf(i) = <<EchoOf(i)>>

(* a malformed line was tried by json.loads and skipped, and the line after
   it got its detection block *)
C4_Witness ==
    /\ idx = 2
    /\ MalformedData(lines[1]) /\ ParsedCount(1) = 1
    /\ Completed(2)
    /\ Len(OutOf(2)) = 8

(* ---------------------------- C5 --------------------------------------- *)

DetectionDoc(l) == IsDataLine(l) /\ Decodes(l) /\ Doc(l).t = "obj" /\ HoldsBoth(TopicOf(l))

(* 'data' is a JSON object, or the document has no 'data' *)
DataIsMapping(l) == Present(Doc(l), "data") => Field(Doc(l), "data").t = "obj"

DataOf(l) == IF Present(Doc(l), "data") THEN Field(Doc(l), "data") ELSE Obj(<<>>)

Shown(d, k, absent) == IF Present(d, k) THEN pystr(Field(d, k)) ELSE <<absent>>

(* the echo and the complete detection block of line i *)
ExpectedBlock(i) ==
    LET l == lines[i]
    IN << EchoOf(i),
          Msg("header", i, <<"OBJECT DETECTION EVENT!">>),
          Msg("time", i, <<"   Time: ">> \o Shown(Doc(l), "@timestamp", "Unknown")),
          Msg("topic", i, <<"   Topic: ">> \o pystr(TopicOf(l))),
          Msg("class", i, <<"   Class: ">> \o Shown(DataOf(l), "ObjectClass", "N/A")),
          Msg("confidence", i, <<"   Confidence: ">> \o Shown(DataOf(l), "Confidence", "N/A")),
          Msg("bbox", i, <<"   BBox: ">> \o Shown(DataOf(l), "BoundingBox", "N/A")),
          Msg("separator", i, Rule("-")) >>

(* the block of the example line of the wire format, written out *)
FullBlockText ==
    << <<"OBJECT DETECTION EVENT!">>,
       <<"   Time: ", "12:00:00">>,
       <<"   Topic: ", "tns1:", "VideoAnalytics", "/", "ObjectDetected">>,
       <<"   Class: ", "person">>,
       <<"   Confidence: ", "87">>,
       <<"   BBox: ", "N/A">> >>

BlockPrinted(i) ==
    /\ IsPrefix(OutOf(i), ExpectedBlock(i))
    /\ i = idx => exc \notin LineErrors
    /\ Completed(i) => OutOf(i) = ExpectedBlock(i)
    /\ (Completed(i) /\ lines[i] = Full) =>
           [j \in 1..6 |-> OutOf(i)[j + 1].txt] = FullBlockText

(* C5 as stated: every 'data:' line whose JSON document has a topic containing
   both 'VideoAnalytics' and 'ObjectDetected' gets, once processed, the complete
   block with the values of 'data' or 'N/A', and '@timestamp' or 'Unknown'. *)
C5_AsStated == \A i \in 1..idx : DetectionDoc(lines[i]) => BlockPrinted(i)

(* C5, amended: the same for the documents whose 'data' is a JSON object or
   absent: what is printed for the line is always a prefix of echo + complete
   block, its processing raises nothing, and once the line is done the whole
   block is there, each value as str() shows it, 'N/A' / 'Unknown' for the
   absent ones. *)
C5_DetectionBlock ==
    \A i \in 1..idx :
        (DetectionDoc(lines[i]) /\ DataIsMapping(lines[i])) => BlockPrinted(i)

(* a detection document without 'data' and one with all three fields have
   both been printed *)
C5_Witness ==
    /\ idx = 2 /\ pc = "L29"
    /\ lines[1] = NoData /\ lines[2] = AllFields
    /\ Len(OutOf(1)) = 8 /\ Len(OutOf(2)) = 8

(* ---------------------------- C6 --------------------------------------- *)

(* nothing but the echo for line i, which is parsed once and ends back at the
   loop head *)
ParsedNoBlock(i) ==
    /\ OutOf(i) \in {<<>>, <<EchoOf(i)>>}
    /\ ParsedCount(i) <= 1
    /\ i = idx => exc \notin LineErrors
    /\ Completed(i) => (OutOf(i) = <<EchoOf(i)>> /\ ParsedCount(i) = 1)

(* C6 as stated: every 'data:' line whose payload is valid JSON and whose
   topic does not contain 'ObjectDetected' (a document without topic included)
   is parsed, gets no detection block, and the loop goes on. *)
C6_AsStated ==
    \A i \in 1..idx :
        (IsDataLine(lines[i]) /\ Decodes(lines[i])
           /\ ~Holds(TopicOf(lines[i]), "ObjectDetected")) => ParsedNoBlock(i)

(* C6, amended: the same for the payloads that are a JSON object whose topic
   is absent, a string, a list or an object. *)
C6_NoBlockWithoutObjectDetected ==
    \A i \in 1..idx :
        (IsDataLine(lines[i]) /\ Decodes(lines[i]) /\ Doc(lines[i]).t = "obj"
           /\ IsContainer(TopicOf(lines[i]))
           /\ ~Holds(TopicOf(lines[i]), "ObjectDetected")) => ParsedNoBlock(i)

(* a VideoAnalytics event of another kind and a document without topic have
   both been parsed and passed over *)
C6_Witness ==
    /\ idx = 2 /\ pc = "L29"
    /\ lines[1] = Motion /\ lines[2] = NoTopic
    /\ parsed = <<1, 2>>
    /\ Kinds(SubSeq(out, 4, Len(out))) = <<"echo", "echo">>

(* ---------------------------- C7 --------------------------------------- *)

(* C7: a non-empty line that does not start with 'data:' is never handed to
   json.loads, nothing but its echo is ever printed for it, its processing
   never goes past the prefix test, and once done it has been echoed once. *)
C7_NoPrefixNoParse ==
    \A i \in 1..idx : (lines[i] # <<>> /\ lines[i][1] # DATA) =>
        /\ OutOf(i) \in {<<>>, <<EchoOf(i)>>}
        /\ ParsedCount(i) = 0
        /\ i = idx => /\ exc \notin LineErrors
                      /\ pc \in LineBody => pc \in {"L30", "L31", "L34"}
        /\ Completed(i) => OutOf(i) = <<EchoOf(i)>>

(* a detection document without the prefix and one with the prefix after a
   blank have both been passed over *)
C7_Witness ==
    /\ idx = 2 /\ pc = "L29"
    /\ lines[1] = BareJson /\ lines[2] = IndentedData
    /\ Len(out) = 5

(* ---------------------------- C8 --------------------------------------- *)

(* C8: nothing is ever printed for an empty line and its processing ends at
   the test of line 30; what is printed for a non-empty line starts with its
   echo, which is printed once; the echo is there as soon as the line is past
   line 31; echoes appear in the order of the stream. *)
C8_EchoDiscipline ==
    /\ \A i \in 1..idx : lines[i] = <<>> =>
           /\ OutOf(i) = <<>>
           /\ i = idx => /\ exc \notin LineErrors
                         /\ pc \in LineBody => pc = "L30"
    /\ \A i \in 1..idx : lines[i] # <<>> =>
           /\ OutOf(i) # <<>> => OutOf(i)[1] = EchoOf(i)
           /\ Cardinality({j \in 1..Len(out) : out[j].i = i /\ out[j].k = "echo"}) <= 1
           /\ (Completed(i) \/ (i = idx /\ (pc \in LineBody \ {"L30", "L31"} \/ exc \in LineErrors)))
                  => OutOf(i) # <<>>
    /\ \A j, k \in 1..Len(out) :
           (j < k /\ out[j].i > 0 /\ out[k].i > 0) => out[j].i <= out[k].i

(* an empty line passed over in silence, then a line echoed ahead of its block *)
C8_Witness ==
    /\ idx = 2 /\ pc = "L29"
    /\ lines[1] = <<>> /\ lines[2] = Full
    /\ Len(out) = 3 + 8

(* ---------------------------- C9 --------------------------------------- *)

TransportErrors == {"ConnectionError", "Timeout", "HTTPError", "ChunkedEncodingError"}

(* C9: at most one HTTP request is ever issued; a transport failure takes the
   function out of the loop for good; the error message is printed at most
   once, is the last thing printed, and after it the function only returns
   (no line is read, echoed or parsed, no request made); when the function
   has ended after a transport failure without a user interrupt, it has
   returned with the message of that failure printed exactly once. *)
C9_ErrorEndsWithoutRetry ==
    /\ nreq <= 1
    /\ Count("error") <= 1
    /\ failed => pc \in {"L60", "ret", "done", "raised"}
    /\ Count("error") = 1 =>
           /\ out[Len(out)].k = "error"
           /\ pc \in {"ret", "done", "raised"}
    /\ (failed /\ sigint.n = 0 /\ pc \in {"ret", "done", "raised"}) =>
           /\ pc # "raised"
           /\ Count("error") = 1
           /\ \E e \in TransportErrors : out[Len(out)].txt = <<"Error: ", e>>

(* the stream broke after a line had been read, and the function has returned *)
C9_Witness ==
    /\ failed /\ pc = "done" /\ sigint.n = 0
    /\ idx >= 1
    /\ out[Len(out)].txt = <<"Error: ", "ChunkedEncodingError">>

(* ---------------------------- C10 -------------------------------------- *)

DataNotMapping(l) ==
    /\ Doc(l).t = "obj" /\ HoldsBoth(TopicOf(l))
    /\ Present(Doc(l), "data") /\ Field(Doc(l), "data").t # "obj"

(* line i ended the loop through the generic error branch: it never gets back
   to the loop head and no line is read after it; unless the user interrupts,
   its processing ends in the handler of line 60 with an AttributeError or a
   TypeError, and the function returns with the error message as its last
   output; when 'data' is the culprit the block stops after its Topic line. *)
EndsLoop(i) ==
    /\ i = idx
    /\ ~Completed(i)
    /\ ParsedCount(i) <= 1
    /\ (pc \notin LineBody /\ sigint.n = 0) =>
           /\ pc \in {"L60", "ret", "done"}
           /\ pc = "L60" => exc \in {"AttributeError", "TypeError"}
           /\ pc \in {"ret", "done"} =>
                  /\ Count("error") = 1
                  /\ out[Len(out)].k = "error" /\ out[Len(out)].i = i
           /\ DataNotMapping(lines[i]) =>
                  Kinds(SubSeq(OutOf(i), 1, 4)) = <<"echo", "header", "time", "topic">>
                  /\ Len(OutOf(i)) <= 5

(* C10 as stated: a 'data:' line whose payload is valid JSON but whose
   top-level value is not an object, or whose 'topic' is not a string, or
   whose 'data' is not a mapping on a detection topic, ends the loop through
   the generic error branch. *)
C10_AsStated ==
    \A i \in 1..idx :
        (IsDataLine(lines[i]) /\ Decodes(lines[i])
           /\ \/ Doc(lines[i]).t # "obj"
              \/ TopicOf(lines[i]).t # "str"
              \/ DataNotMapping(lines[i])) => EndsLoop(i)

(* C10, amended: the same where "'topic' is not a string" reads "'topic' is a
   number, a boolean or null" (a list or an object supports the membership
   test and raises nothing). *)
C10_WrongShapeEndsLoop ==
    \A i \in 1..idx :
        (IsDataLine(lines[i]) /\ Decodes(lines[i])
           /\ \/ Doc(lines[i]).t # "obj"
              \/ ~IsContainer(TopicOf(lines[i]))
              \/ DataNotMapping(lines[i])) => EndsLoop(i)

(* a detection document with "data": null has ended the function after a
   skipped line, its block cut after the Topic line *)
C10_Witness ==
    /\ idx = 2 /\ pc = "done" /\ sigint.n = 0
    /\ lines[2] = DataNull
    /\ Kinds(OutOf(2)) = <<"echo", "header", "time", "topic", "error">>

====
